---- MODULE Spec2Model ----
(***************************************************************************)
(* A model of the bump arena of src/lib.rs: one backing buffer acquired    *)
(* from the platform allocator at alignment 8, a cursor `offset` advanced  *)
(* by alloc_layout, a bulk reset, three accessors and Drop.                *)
(*                                                                         *)
(* usize is modelled as a WordBits-bit unsigned word; every addition and   *)
(* subtraction of the source is taken modulo 2^WordBits and the alignment  *)
(* mask is computed bit by bit.                                            *)
(***************************************************************************)
EXTENDS Integers, Naturals, Sequences, FiniteSets, TLC

\* ------------------------------------------------------------------ bounds
WordBits == 6          \* width of usize in the model
MaxSize == 4           \* small arena sizes passed to Arena::new: 0..MaxSize
MaxCount == 2          \* small element counts passed to alloc_array
MaxViews == 2          \* views a caller holds between two resets

\* --------------------------------------------------------- machine words
RECURSIVE Pow2(_)
Pow2(n) == IF n = 0 THEN 1 ELSE 2 * Pow2(n - 1)

Word == Pow2(WordBits)              \* 2^w
UsizeMax == Word - 1                \* usize::MAX
IsizeMax == Pow2(WordBits - 1) - 1  \* isize::MAX

WAdd(a, b) == (a + b) % Word        \* wrapping usize +
WSub(a, b) == (a - b + Word) % Word \* wrapping usize -

RECURSIVE BitAndN(_, _, _)
BitAndN(x, y, n) ==
    IF n = 0 THEN 0
    ELSE (x % 2) * (y % 2) + 2 * BitAndN(x \div 2, y \div 2, n - 1)

BitAnd(x, y) == BitAndN(x, y, WordBits)   \* usize &
BitNot(x) == UsizeMax - x                 \* usize !

\* ------------------------------------------------------------ core::alloc
BufferAlign == 8

\* Layout::from_size_align(size, align) is Ok
LayoutOk(size, align) == size <= IsizeMax - (align - 1)

\* mutant: the byte size is computed without any check
ArrayLayoutOkUnchecked(T, n) == TRUE

\* Layout::array::<T>(n) is Ok
ArrayLayoutOk(T, n) ==
    ~(T.size # 0 /\ n > (IsizeMax - (T.align - 1)) \div T.size)

\* the layout Layout::array::<T>(n) yields when it is Ok
ArrayLayout(T, n) == [size |-> T.size * n, align |-> T.align]

\* ------------------------------------------------------------- inputs
\* element types, as (size_of, align_of): (), u8, u32, u64, and a struct
\* declared #[repr(align(16))]
AllTypes ==
    {[size |-> 0, align |-> 1], [size |-> 1, align |-> 1],
     [size |-> 4, align |-> 4], [size |-> 8, align |-> 8],
     [size |-> 16, align |-> 16]}

Types == {T \in AllTypes : LayoutOk(T.size, T.align)}

Sizes == (0..MaxSize)
           \cup {IsizeMax - 7, IsizeMax - 6, UsizeMax}

Counts == (0..MaxCount) \cup {IsizeMax, UsizeMax}

\* addresses alloc::alloc may return at alignment 8; they lie above every
\* alignment in AllTypes, as heap addresses lie above the dangling ones
BaseAddrs == {24, 32}

Bytes == {0, 1}

\* a view is the address, byte length and alignment of a returned reference
NoView == [addr |-> 0, size |-> 0, align |-> 1]

\* the empty slice `&mut []` of element type T: dangling, aligned for T
EmptySlice(T) == [addr |-> T.align, size |-> 0, align |-> T.align]

\* ------------------------------------------------------------- state
VARIABLES
    st,        \* "None" | "Active" | "Destroyed"
    memory,    \* Arena.memory: base address of the backing buffer
    size,      \* Arena.size
    offset,    \* Arena.offset
    mem,       \* contents of the backing buffer, index 0..size-1
    views,     \* ranges handed out since the last reset, oldest first
    heap,      \* calls made to the platform allocator, oldest first
    op,        \* the last call made
    arg,       \* its argument
    res,       \* its result: "Ok", an ArenaError, or the accessor's value
    ret,       \* the range it returned
    pre,       \* Arena.offset when it was called
    wasReset   \* reset() has been called on this arena

vars == <<st, memory, size, offset, mem, views, heap, op, arg, res, ret,
          pre, wasReset>>

arena == <<st, memory, size, offset, mem>>

\* ------------------------------------------------------ Arena::alloc_layout
\* mutant: the `- 1` of the rounding is dropped
aligned_offset_next(off, align) ==
    BitAnd(WAdd(off, align), BitNot(WSub(align, 1)))

\* mutant: the cursor is used as it is, without rounding
aligned_offset_unaligned(off, align) == off

\* mutant: the cursor is rounded down
aligned_offset_down(off, align) ==
    BitAnd(off, BitNot(WSub(align, 1)))

aligned_offset(off, align) ==
    BitAnd(WSub(WAdd(off, align), 1), BitNot(WSub(align, 1)))

\* mutant: the capacity test forgets the size of the request
OutOfMemoryIgnoresSize(off, cap, layout) ==
    aligned_offset(off, layout.align) > cap

\* mutant: the capacity test rejects an exact fit
OutOfMemoryOffByOne(off, cap, layout) ==
    WAdd(aligned_offset(off, layout.align), layout.size) >= cap

OutOfMemory(off, cap, layout) ==
    WAdd(aligned_offset(off, layout.align), layout.size) > cap

\* mutant: the cursor is left at the start of the range it handed out
new_offset_aligned_only(off, layout) ==
    aligned_offset(off, layout.align)

\* mutant: the cursor is set to the size of the request
new_offset_size_only(off, layout) ==
    layout.size

new_offset(off, layout) ==
    WAdd(aligned_offset(off, layout.align), layout.size)

\* mutant: a failing request leaves the cursor on its aligned offset
alloc_layout_keeps_padding(base, off, cap, layout) ==
    IF OutOfMemory(off, cap, layout)
    THEN [res |-> "OutOfMemory",
          offset |-> aligned_offset(off, layout.align), view |-> NoView]
    ELSE [res |-> "Ok", offset |-> new_offset(off, layout),
          view |-> [addr |-> base + aligned_offset(off, layout.align),
                    size |-> layout.size, align |-> layout.align]]

\* mutant: a request aligned more strictly than the buffer is rejected
alloc_layout_caps_align(base, off, cap, layout) ==
    IF layout.align > BufferAlign
    THEN [res |-> "InvalidAlignment", offset |-> off, view |-> NoView]
    ELSE IF OutOfMemory(off, cap, layout)
    THEN [res |-> "OutOfMemory", offset |-> off, view |-> NoView]
    ELSE [res |-> "Ok", offset |-> new_offset(off, layout),
          view |-> [addr |-> base + aligned_offset(off, layout.align),
                    size |-> layout.size, align |-> layout.align]]

alloc_layout(base, off, cap, layout) ==
    IF OutOfMemory(off, cap, layout)
    THEN [res |-> "OutOfMemory", offset |-> off, view |-> NoView]
    ELSE [res |-> "Ok", offset |-> new_offset(off, layout),
          view |-> [addr |-> base + aligned_offset(off, layout.align),
                    size |-> layout.size, align |-> layout.align]]

\* the tail shared by alloc and alloc_array once a layout exists
AllocLayoutStep(layout) ==
    LET r == alloc_layout(memory, offset, size, layout) IN
    /\ res' = r.res
    /\ ret' = r.view
    /\ offset' = r.offset
    /\ views' = IF r.res = "Ok" THEN Append(views, r.view) ELSE views

\* ------------------------------------------------------------- actions
Init ==
    /\ st = "None"
    /\ memory = 0
    /\ size = 0
    /\ offset = 0
    /\ mem = <<>>
    /\ views = <<>>
    /\ heap = <<>>
    /\ op = "none"
    /\ arg = 0
    /\ res = "none"
    /\ ret = NoView
    /\ pre = 0
    /\ wasReset = FALSE

\* mutant: the layout of the buffer is not validated
NewOutcomeNoLayoutCheck(sz) ==
    IF sz = 0 THEN {"InvalidSize"} ELSE {"AllocationFailed", "Ok"}

\* mutant: a size of zero is not rejected
NewOutcomeNoZeroCheck(sz) ==
    IF ~LayoutOk(sz, BufferAlign) THEN {"InvalidAlignment"}
    ELSE {"AllocationFailed", "Ok"}

NewOutcome(sz) ==
    IF sz = 0 THEN {"InvalidSize"}
    ELSE IF ~LayoutOk(sz, BufferAlign) THEN {"InvalidAlignment"}
    ELSE {"AllocationFailed", "Ok"}

New(sz, bases, fills) ==
    /\ st = "None"
    /\ op' = "new"
    /\ arg' = sz
    /\ pre' = offset
    /\ ret' = NoView
    /\ \E r \in NewOutcome(sz) :
         /\ res' = r
         /\ IF r = "Ok"
            THEN /\ st' = "Active"
                 /\ \E base \in bases : memory' = base
                 /\ size' = sz
                 /\ offset' = 0
                 /\ \E b \in fills : mem' = [i \in 1..sz |-> b]
                 /\ heap' = Append(heap, [call |-> "alloc", ptr |-> memory',
                                          size |-> sz,
                                          align |-> BufferAlign])
            ELSE UNCHANGED <<arena, heap>>
    /\ UNCHANGED <<views, wasReset>>

Alloc(T) ==
    /\ st = "Active"
    /\ Len(views) < MaxViews
    /\ op' = "alloc"
    /\ arg' = [type |-> T, count |-> 1]
    /\ pre' = offset
    /\ AllocLayoutStep(T)
    /\ UNCHANGED <<st, memory, size, mem, heap, wasReset>>

\* mutant: a count of zero is not short-circuited
ZeroCountNever(count) == FALSE

ZeroCount(count) == count = 0

AllocArray(T, count) ==
    /\ st = "Active"
    /\ Len(views) < MaxViews
    /\ op' = "alloc_array"
    /\ arg' = [type |-> T, count |-> count]
    /\ pre' = offset
    /\ IF ZeroCount(count)
       THEN /\ res' = "Ok"
            /\ ret' = EmptySlice(T)
            /\ UNCHANGED <<offset, views>>
       ELSE IF ~ArrayLayoutOk(T, count)
       THEN /\ res' = "InvalidSize"
            /\ ret' = NoView
            /\ UNCHANGED <<offset, views>>
       ELSE AllocLayoutStep(ArrayLayout(T, count))
    /\ UNCHANGED <<st, memory, size, mem, heap, wasReset>>

\* mutant: reset leaves the cursor where it is
ResetOffsetKeeps == offset

ResetOffset == 0

\* mutant: reset clears the backing buffer
ResetZeroes ==
    /\ st = "Active"
    /\ op' = "reset"
    /\ arg' = 0
    /\ res' = "Ok"
    /\ ret' = NoView
    /\ pre' = offset
    /\ wasReset' = TRUE
    /\ offset' = ResetOffset
    /\ views' = <<>>
    /\ mem' = [i \in 1..size |-> 0]
    /\ UNCHANGED <<st, memory, size, heap>>

Reset ==
    /\ st = "Active"
    /\ op' = "reset"
    /\ arg' = 0
    /\ res' = "Ok"
    /\ ret' = NoView
    /\ pre' = offset
    /\ wasReset' = TRUE
    /\ offset' = ResetOffset
    /\ views' = <<>>
    /\ UNCHANGED <<st, memory, size, mem, heap>>

\* mutant: the operands of the subtraction are swapped
remaining_reversed == WSub(offset, size)

remaining == WSub(size, offset)
used == offset
capacity == size

Accessor(name, value) ==
    /\ st = "Active"
    /\ op' = name
    /\ arg' = 0
    /\ res' = value
    /\ ret' = NoView
    /\ pre' = offset
    /\ UNCHANGED <<arena, views, heap, wasReset>>

Remaining == Accessor("remaining", remaining)
Used == Accessor("used", used)
Capacity == Accessor("capacity", capacity)

\* mutant: the buffer is released with the number of bytes in use
DropLayoutUsed == [size |-> offset, align |-> BufferAlign]

\* Layout::from_size_align_unchecked(self.size, 8)
DropLayout == [size |-> size, align |-> BufferAlign]

Drop ==
    /\ st = "Active"
    /\ op' = "drop"
    /\ arg' = 0
    /\ res' = "Ok"
    /\ ret' = NoView
    /\ pre' = offset
    /\ st' = "Destroyed"
    /\ heap' = Append(heap, [call |-> "dealloc", ptr |-> memory,
                             size |-> DropLayout.size,
                             align |-> DropLayout.align])
    /\ views' = <<>>
    /\ UNCHANGED <<memory, size, offset, mem, wasReset>>

\* offsets into the backing buffer of the bytes a view covers
Range(v) == {k \in 0..(size - 1) :
               memory + k >= v.addr /\ memory + k < v.addr + v.size}

\* a caller stores byte b in every byte of the i-th view it holds
Write(i, b) ==
    /\ st = "Active"
    /\ i \in 1..Len(views)
    /\ op' = "write"
    /\ arg' = i
    /\ res' = "Ok"
    /\ ret' = views[i]
    /\ pre' = offset
    /\ mem' = [k \in 1..size |->
                 IF k - 1 \in Range(views[i]) THEN b ELSE mem[k]]
    /\ UNCHANGED <<st, memory, size, offset, views, heap, wasReset>>

\* ------------------------------------------------------- specifications
Next ==
    \/ \E sz \in Sizes : New(sz, BaseAddrs, {0})
    \/ \E T \in Types : Alloc(T)
    \/ \E T \in Types, n \in Counts : AllocArray(T, n)
    \/ Reset
    \/ Remaining
    \/ Used
    \/ Capacity
    \/ Drop

Spec == Init /\ [][Next]_vars

\* the byte-level specification: small arenas, arbitrary initial contents,
\* and callers that write through the views they hold
\* element types u8 and u16
MemTypes == {[size |-> 1, align |-> 1], [size |-> 2, align |-> 2]}

NextMem ==
    \/ \E sz \in 0..MaxSize : New(sz, {24}, Bytes)
    \/ \E T \in MemTypes : Alloc(T)
    \/ \E T \in MemTypes, n \in 0..MaxCount : AllocArray(T, n)
    \/ \E i \in 1..MaxViews, b \in Bytes : Write(i, b)
    \/ Reset
    \/ Drop

SpecMem == Init /\ [][NextMem]_vars

\* ------------------------------------------------------------ properties
IsAlloc == op \in {"alloc", "alloc_array"}

\* the least multiple of a that is >= o
RoundUp(o, a) == ((o + a - 1) \div a) * a

\* the layout the last alloc or alloc_array asked alloc_layout for
Requested ==
    IF op = "alloc" THEN arg.type
    ELSE [size |-> arg.type.size * arg.count, align |-> arg.type.align]

\* the last call was an allocation whose layout exists
HasLayout ==
    \/ op = "alloc"
    \/ /\ op = "alloc_array"
       /\ arg.count > 0
       /\ arg.type.size * arg.count <= IsizeMax - (arg.type.align - 1)

\* addresses a view covers
AddrRange(v) == v.addr .. (v.addr + v.size - 1)

\* C1: in every state reachable by new, alloc, alloc_array and reset,
\* successful or failing, 0 <= used() <= capacity().
C1_CursorInBounds ==
    st = "Active" => 0 <= used /\ used <= capacity

C1_Witness ==
    /\ st = "Active"
    /\ size > 0
    /\ used = capacity
    /\ wasReset
    /\ IsAlloc
    /\ res = "OutOfMemory"

\* C2: the address ranges of any two views issued since the last reset are
\* disjoint, and a write through one view leaves every byte of the other
\* views issued since the last reset as it was.
ViewsDisjoint ==
    \A i, j \in 1..Len(views) :
        i # j => AddrRange(views[i]) \cap AddrRange(views[j]) = {}

WriteFrame ==
    op' = "write" =>
        \A j \in 1..Len(views) :
            j # arg' => \A k \in Range(views[j]) : mem'[k + 1] = mem[k + 1]

C2_NonOverlap == []ViewsDisjoint /\ [][WriteFrame]_vars

C2_Witness ==
    /\ op = "write"
    /\ Len(views) = 2
    /\ views[1].size > 0
    /\ views[2].size > 0
    /\ \A k \in Range(views[1]) : mem[k + 1] = 1
    /\ \A k \in Range(views[2]) : mem[k + 1] = 0

\* C3 as claimed: every successful alloc or alloc_array returns a range
\* [a, a + s) with 0 <= a and a + s <= capacity().
C3_AsClaimed ==
    (IsAlloc /\ res = "Ok") =>
        /\ 0 <= ret.addr - memory
        /\ ret.addr - memory + ret.size <= capacity

\* C3 as amended: every successful alloc, and every successful alloc_array
\* with count > 0, returns a range inside the backing buffer; alloc_array
\* with count = 0 returns an empty view.
C3_RangeInBuffer ==
    (IsAlloc /\ res = "Ok") =>
        IF op = "alloc_array" /\ arg.count = 0
        THEN ret.size = 0
        ELSE /\ 0 <= ret.addr - memory
             /\ ret.addr - memory + ret.size <= capacity

C3_Witness ==
    /\ op = "alloc_array"
    /\ arg.count > 0
    /\ res = "Ok"
    /\ ret.size > 0
    /\ ret.addr - memory > 0
    /\ ret.addr - memory + ret.size = capacity

\* C4: across a step that is not reset(), used() does not decrease.
C4_MonotoneCursor == [][op' # "reset" => used' >= used]_vars

C4_Witness ==
    /\ wasReset
    /\ IsAlloc
    /\ res = "Ok"
    /\ used > pre
    /\ pre > 0

\* C5 as claimed: for every size > 0, new(size) succeeds with
\* capacity() = size, used() = 0 and remaining() = size.
C5_AsClaimed ==
    (op = "new" /\ arg > 0) =>
        /\ res = "Ok"
        /\ capacity = arg
        /\ used = 0
        /\ remaining = arg

\* C5 as amended: for every size > 0, new(size) fails with InvalidAlignment
\* when size > isize::MAX - 7, and otherwise either fails with
\* AllocationFailed or succeeds; when it succeeds capacity() = size,
\* used() = 0 and remaining() = size.
C5_NewPostcondition ==
    (op = "new" /\ arg > 0) =>
        /\ arg > IsizeMax - 7 => res = "InvalidAlignment"
        /\ arg <= IsizeMax - 7 => res \in {"Ok", "AllocationFailed"}
        /\ res = "Ok" => /\ st = "Active"
                         /\ capacity = arg
                         /\ used = 0
                         /\ remaining = arg
        /\ res # "Ok" => st = "None"

C5_Witness ==
    /\ op = "new"
    /\ arg = IsizeMax - 7
    /\ res = "Ok"
    /\ capacity = arg

\* C6: new(0) fails with InvalidSize, creates no arena and acquires no
\* buffer.
C6_ZeroSizeRejected ==
    (op = "new" /\ arg = 0) =>
        /\ res = "InvalidSize"
        /\ st = "None"
        /\ heap = <<>>

C6_Witness ==
    /\ op = "new"
    /\ arg = 0
    /\ res = "InvalidSize"

\* C7: a request with layout (size, align) made at cursor o fails with
\* OutOfMemory if and only if round_up(o, align) + size > capacity(), and
\* succeeds otherwise.
C7_OutOfMemoryIff ==
    HasLayout =>
        /\ res \in {"Ok", "OutOfMemory"}
        /\ res = "OutOfMemory" <=>
             RoundUp(pre, Requested.align) + Requested.size > capacity

\* an exact fit that succeeded, after an earlier view
C7_Witness ==
    /\ HasLayout
    /\ res = "Ok"
    /\ Len(views) = 2
    /\ Requested.size > 0
    /\ RoundUp(pre, Requested.align) > pre
    /\ RoundUp(pre, Requested.align) + Requested.size = capacity

\* a request that would fit unpadded and fails because of its padding
C7_WitnessPadding ==
    /\ HasLayout
    /\ res = "OutOfMemory"
    /\ pre + Requested.size <= capacity

\* C8: after a successful alloc::<T>(), used() has grown by at least
\* size_of(T) and by at most size_of(T) + align_of(T) - 1.
C8_AllocGrowth ==
    (op = "alloc" /\ res = "Ok") =>
        /\ used - pre >= arg.type.size
        /\ used - pre <= arg.type.size + (arg.type.align - 1)

C8_Witness ==
    /\ op = "alloc"
    /\ res = "Ok"
    /\ arg.type.align > 1
    /\ used - pre = arg.type.size + (arg.type.align - 1)

\* C9: alloc_array::<T>(0) succeeds in every state, returns an empty view
\* and leaves used(), remaining() and capacity() unchanged.
C9_ZeroCountStep ==
    (op' = "alloc_array" /\ arg'.count = 0) =>
        /\ res' = "Ok"
        /\ ret'.size = 0
        /\ used' = used
        /\ remaining' = remaining
        /\ capacity' = capacity
        /\ views' = views

C9_ZeroCountArray == [][C9_ZeroCountStep]_vars

\* on a completely full arena, for an over-aligned element type
C9_Witness ==
    /\ op = "alloc_array"
    /\ arg.count = 0
    /\ arg.type.align > BufferAlign
    /\ res = "Ok"
    /\ size > 0
    /\ used = capacity

\* C10: reset() sets used() to 0 and remaining() to capacity(), and the
\* allocations made since the last reset succeed, fail and move the cursor
\* exactly as they do in a fresh arena of the same capacity.
RECURSIVE Replay(_, _)
Replay(off, vs) ==
    IF vs = <<>> THEN off
    ELSE LET r == alloc_layout(memory, off, size, Head(vs)) IN
         IF r.res = "Ok" /\ r.view = Head(vs)
         THEN Replay(r.offset, Tail(vs))
         ELSE -1

C10_ResetRestores ==
    /\ op = "reset" => used = 0 /\ remaining = capacity
    /\ st = "Active" => Replay(0, views) = used
    /\ (HasLayout /\ res = "OutOfMemory") =>
           alloc_layout(memory, Replay(0, views), size, Requested).res
             = "OutOfMemory"

C10_Witness ==
    /\ wasReset
    /\ IsAlloc
    /\ res = "Ok"
    /\ Len(views) = 2
    /\ size > 0
    /\ used = capacity

\* C11: when the base address of the buffer is a multiple of the alignment
\* requested, the address returned by a successful allocation is a multiple
\* of that alignment; the offset of every range handed out is a multiple of
\* its alignment in any case.
C11_AlignedWhenBaseAligned ==
    /\ (IsAlloc /\ res = "Ok" /\ memory % ret.align = 0) =>
           ret.addr % ret.align = 0
    /\ \A i \in 1..Len(views) :
           (views[i].addr - memory) % views[i].align = 0

C11_Witness ==
    /\ op = "alloc"
    /\ res = "Ok"
    /\ arg.type.align = BufferAlign
    /\ memory % arg.type.align = 0
    /\ pre % arg.type.align # 0
    /\ ret.addr > memory
    /\ ret.addr % arg.type.align = 0

\* C12: remaining() = capacity() - used() without underflow, used() is the
\* cursor, and a call of remaining(), used() or capacity() returns that
\* value and changes nothing of the arena.
AccessorFrame ==
    op' \in {"remaining", "used", "capacity"} =>
        /\ UNCHANGED <<st, memory, size, offset, mem, views, heap>>
        /\ res' = (IF op' = "remaining" THEN size - offset
                   ELSE IF op' = "used" THEN offset ELSE size)

C12_Accessors ==
    /\ [](st = "Active" =>
            /\ remaining = capacity - used
            /\ remaining >= 0
            /\ used = offset)
    /\ [][AccessorFrame]_vars

C12_Witness ==
    /\ op = "remaining"
    /\ offset > 0
    /\ offset < size
    /\ res = size - offset

\* C13: on an arena whose cursor is 0 and that holds no view (fresh, or just
\* reset), alloc_array::<T>(N) with N * size_of(T) = capacity() succeeds and
\* leaves remaining() = 0 and used() = capacity().
C13_ExactFit ==
    (/\ op = "alloc_array"
     /\ pre = 0
     /\ arg.count > 0
     /\ arg.type.size * arg.count = capacity) =>
        /\ res = "Ok"
        /\ remaining = 0
        /\ used = capacity
        /\ ret.addr = memory
        /\ ret.size = capacity

C13_Witness ==
    /\ op = "alloc_array"
    /\ wasReset
    /\ pre = 0
    /\ arg.count > 1
    /\ arg.type.size * arg.count = capacity
    /\ res = "Ok"
    /\ remaining = 0

\* C14: alloc_array::<T>(count) with count > 0 whose byte size
\* count * size_of(T) is not a representable layout size fails with
\* InvalidSize and leaves used() as it was.
C14_ArrayOverflow ==
    (/\ op = "alloc_array"
     /\ arg.count > 0
     /\ arg.type.size * arg.count > IsizeMax - (arg.type.align - 1)) =>
        /\ res = "InvalidSize"
        /\ used = pre
        /\ ret = NoView

\* a byte size that exceeds usize::MAX, asked of a partly used arena
C14_Witness ==
    /\ op = "alloc_array"
    /\ arg.type.size * arg.count > UsizeMax
    /\ res = "InvalidSize"
    /\ pre > 0
    /\ used = pre

\* C15: the arena is Active, then Destroyed: the buffer is acquired once, at
\* construction, and released once, at destruction, with the pointer, size
\* and alignment 8 it was acquired with, whatever was allocated or reset in
\* between; nothing happens after destruction.
HeapMatchesLifecycle ==
    /\ st = "None" => heap = <<>>
    /\ st = "Active" =>
         heap = <<[call |-> "alloc", ptr |-> memory, size |-> size,
                   align |-> BufferAlign]>>
    /\ st = "Destroyed" =>
         /\ Len(heap) = 2
         /\ heap[1].call = "alloc"
         /\ heap[2] = [heap[1] EXCEPT !.call = "dealloc"]
         /\ heap[1].align = BufferAlign
         /\ heap[1].size = size

LifecycleStep ==
    /\ st # "Destroyed"
    /\ st' # st => <<st, st'>> \in {<<"None", "Active">>,
                                    <<"Active", "Destroyed">>}
    /\ st' = "Destroyed" => op' = "drop"

C15_Lifecycle == []HeapMatchesLifecycle /\ [][LifecycleStep]_vars

C15_Witness ==
    /\ st = "Destroyed"
    /\ wasReset
    /\ offset > 0
    /\ offset < size
    /\ Len(heap) = 2

\* C16: a failed alloc or alloc_array leaves used(), remaining() and
\* capacity() as they were, so that every request that fits from the cursor
\* the failed request was made at still succeeds.
FailedAllocFrame ==
    (op' \in {"alloc", "alloc_array"} /\ res' # "Ok") =>
        /\ res' \in {"OutOfMemory", "InvalidSize"}
        /\ used' = used
        /\ remaining' = remaining
        /\ capacity' = capacity
        /\ views' = views

StillFitsAfterFailure ==
    (IsAlloc /\ res # "Ok") =>
        \A T \in Types :
            RoundUp(pre, T.align) + T.size <= capacity =>
                alloc_layout(memory, offset, size, T).res = "Ok"

C16_FailedAllocKeepsState ==
    []StillFitsAfterFailure /\ [][FailedAllocFrame]_vars

\* a request that failed on its padding while a byte was still free
C16_Witness ==
    /\ op = "alloc"
    /\ res = "OutOfMemory"
    /\ RoundUp(pre, arg.type.align) > pre
    /\ used = pre
    /\ used < capacity
    /\ Len(views) = 1

\* C17: for every cursor value o in 0..capacity() and every power-of-two
\* align, (o + align - 1) & !(align - 1) is the least multiple of align that
\* is >= o, so a successful allocation starts at the lowest aligned offset
\* and its padding is less than align.
PowersOfTwo == {Pow2(k) : k \in 0..(WordBits - 1)}

IsLeastMultiple(m, o, a) ==
    /\ m % a = 0
    /\ m >= o
    /\ \A n \in o..(m - 1) : n % a # 0

\* the table of all cursor values depends on capacity() alone: it is checked
\* once for each arena, in the state Arena::new leaves
C17_BitmaskRoundsUp ==
    /\ (op = "new" /\ res = "Ok") =>
           \A o \in 0..capacity, a \in PowersOfTwo :
               IsLeastMultiple(aligned_offset(o, a), o, a)
    /\ st = "Active" =>
           \A a \in PowersOfTwo :
               IsLeastMultiple(aligned_offset(used, a), used, a)
    /\ (HasLayout /\ res = "Ok") =>
           /\ IsLeastMultiple(ret.addr - memory, pre, ret.align)
           /\ ret.addr - memory - pre < ret.align

C17_Witness ==
    /\ op = "alloc"
    /\ res = "Ok"
    /\ wasReset
    /\ arg.type.align = 4
    /\ pre % 4 = 1
    /\ ret.addr - memory = pre + 3

\* C18: the buffer is acquired at alignment 8 and a request aligned more
\* strictly is accepted, never rejected with InvalidAlignment; when the base
\* address is congruent to 8 modulo that alignment the address returned is
\* not a multiple of it.
C18_OverAlignedAccepted ==
    (HasLayout /\ Requested.align > BufferAlign) =>
        /\ res \in {"Ok", "OutOfMemory"}
        /\ res = "Ok" <=>
             RoundUp(pre, Requested.align) + Requested.size <= capacity
        /\ (res = "Ok" /\ memory % Requested.align = BufferAlign) =>
             ret.addr % Requested.align = BufferAlign

C18_Witness ==
    /\ op = "alloc"
    /\ arg.type.align > BufferAlign
    /\ arg.type.size > 0
    /\ res = "Ok"
    /\ memory % BufferAlign = 0
    /\ ret.addr % arg.type.align # 0

\* C19: for every arena Arena::new accepts and every valid layout, neither
\* offset + align - 1 nor aligned_offset + size exceeds usize::MAX, so the
\* wrapping sums of alloc_layout are the exact sums and the capacity test
\* compares the true end of the request.
\* the largest size a layout of alignment a can have
MaxLayoutSize(a) == IsizeMax - (a - 1)

NoWrapAt(o, s, a) ==
    /\ o + a - 1 <= UsizeMax
    /\ RoundUp(o, a) + s <= UsizeMax
    /\ aligned_offset(o, a) = RoundUp(o, a)
    /\ new_offset(o, [size |-> s, align |-> a]) = RoundUp(o, a) + s
    /\ OutOfMemory(o, capacity, [size |-> s, align |-> a])
         <=> RoundUp(o, a) + s > capacity

C19_NoOverflow ==
    /\ st = "Active" =>
         /\ RoundUp(capacity, BufferAlign) <= IsizeMax
         /\ \A a \in PowersOfTwo : NoWrapAt(used, MaxLayoutSize(a), a)
    /\ HasLayout => NoWrapAt(pre, Requested.size, Requested.align)

\* the largest array of bytes, asked of the largest arena when it is in use
C19_Witness ==
    /\ op = "alloc_array"
    /\ capacity = IsizeMax - 7
    /\ pre > 0
    /\ arg.type.size * arg.count = IsizeMax
    /\ res = "OutOfMemory"

\* C20: reset() changes the cursor only: capacity(), the buffer and every
\* byte in it are as before; alloc, alloc_array and reset never change
\* capacity() or the buffer the arena owns.
ResetFrame ==
    /\ op' = "reset" =>
         /\ st' = st
         /\ capacity' = capacity
         /\ memory' = memory
         /\ mem' = mem
         /\ heap' = heap
    /\ op' \in {"alloc", "alloc_array", "reset"} =>
         /\ capacity' = capacity
         /\ memory' = memory
         /\ heap' = heap
         /\ DOMAIN mem' = DOMAIN mem

C20_ResetFrame == [][ResetFrame]_vars

\* a reset of an arena whose bytes were written and differ from one another
C20_Witness ==
    /\ op = "reset"
    /\ pre > 0
    /\ used = 0
    /\ \E i, j \in 1..size : mem[i] # mem[j]

====
